---- MODULE Spec2Model ----
(***************************************************************************)
(* SDESA simulation engine (src/core.py, src/model.py, src/engine.py).     *)
(*                                                                         *)
(* The state is one Model, one SimulationEngine built on it, and the       *)
(* position of the caller / of SimulationEngine.run.  The caller may call  *)
(* engine.event_calendar.schedule_event before run (the engine itself      *)
(* never schedules a BEGIN_SERVICE event).  run is split at its loop       *)
(* heads: one action per evaluation of a loop condition and one action     *)
(* per loop body, each body being a whole handler call.                    *)
(***************************************************************************)
EXTENDS Integers, Sequences, FiniteSets, TLC

(***************************************************************************)
(* Bounds of the explored inputs.                                          *)
(***************************************************************************)
MaxObjects == 3   \* flow entities + resources + events the caller creates
MaxBegins  == 2   \* successful begins explored in one run

BEGIN_SERVICE == "begin_service"
END_SERVICE   == "end_service"

Types == {"x", "y"}

\* values the duration samplers return
Durations == {0, 1}

\* values of a sampler that can also return a negative duration
NegativeDurations == {-1, 1}

\* run(duration) arguments explored
RunDurations == {1, 3}

(***************************************************************************)
(* Names bound in the namespace of engine.py by its import statements.     *)
(***************************************************************************)
EngineImports ==
  {"Event", "EventCalendar", "SimulationClock", "FlowEntityQueue",
   "ResourceEntityQueue", "Model"}

(***************************************************************************)
(* Input universes.                                                        *)
(***************************************************************************)
MkActivity(id, req, rel, gen, succ, prio) ==
  [id |-> id, required_resources |-> req, released_resources |-> rel,
   generated_resources |-> gen, successor_activities |-> succ,
   priority |-> prio]

\* Activity "A" of the model: <<required, released, generated, successors>>.
ActivityShapes ==
  { <<<<>>, {}, <<>>, <<>>>>,
    <<<<>>, {}, <<"x">>, <<>>>>,
    <<<<>>, {}, <<>>, <<"B">>>>,
    <<<<"x">>, {}, <<>>, <<>>>>,
    <<<<"x">>, {"x"}, <<>>, <<>>>>,
    <<<<"x", "x">>, {}, <<>>, <<>>>>,
    <<<<"x", "y">>, {"x"}, <<>>, <<>>>> }

\* Activity "B" is a plain activity of higher priority.
ActivityTables ==
  { [a \in {"A", "B"} |->
       IF a = "A"
       THEN MkActivity("A", sh[1], sh[2], sh[3], sh[4], 0)
       ELSE MkActivity("B", <<>>, {}, <<>>, <<>>, 10)]
    : sh \in ActivityShapes }

\* Ids are strings in the source.  A flow entity id is modelled as the
\* sequence of its "_"-separated parts (f"{entity.id}_{successor_id}" appends
\* a part), a resource id as <<prefix, number>> (f"{type}_{len}").
EntityIds   == [i \in 1..8 |-> <<"e", i>>]
ResourceIds == [i \in 1..8 |-> <<"r", i>>]

\* (activity_id, arrival_time, departure_time) of an initial flow entity;
\* "Z" is an activity the model does not have, departure_time 2 an entity
\* the caller hands over as already serviced.
EntityChoices ==
  { <<"A", 0, 0>>, <<"A", 1, 0>>, <<"B", 0, 0>>, <<"Z", 0, 0>>, <<"A", 0, 2>>,
    <<"Z", 0, 2>> }

\* (type, ready_time, disposable) of an initial resource
ResourceChoices ==
  { <<"x", 0, FALSE>>, <<"x", 0, TRUE>>, <<"x", 2, FALSE>>, <<"y", 0, FALSE>> }

\* Model.initial_flow_entities of length n
InitialEntityLists(n) ==
  { [i \in 1..n |->
       [id |-> EntityIds[i], activity_id |-> l[i][1],
        arrival_time |-> l[i][2], departure_time |-> l[i][3]]]
    : l \in [1..n -> EntityChoices] }

\* Model.initial_resources of length n
InitialResourceLists(n) ==
  { [i \in 1..n |->
       [id |-> ResourceIds[i], type |-> l[i][1], ready_time |-> l[i][2],
        available |-> TRUE, disposable |-> l[i][3]]]
    : l \in [1..n -> ResourceChoices] }

\* (time, type, entity_id, activity_id) of an event the caller schedules
CallerEvents ==
  { <<0, END_SERVICE, <<"e", 1>>, "A">>,   <<2, END_SERVICE, <<"e", 1>>, "A">>,
    <<0, BEGIN_SERVICE, <<"e", 1>>, "A">>, <<2, BEGIN_SERVICE, <<"e", 1>>, "A">>,
    <<2, END_SERVICE, <<"e", 1>>, "B">>,   <<2, END_SERVICE, <<"e", 1>>, "Z">> }

VARIABLES
  activities,     \* Model.activities: id -> Activity
  entities,       \* the FlowEntity objects, in creation order
  resources,      \* the ResourceEntity objects, in creation order
  calendar,       \* EventCalendar.events
  clock,          \* SimulationClock.current_time
  event_log,      \* SimulationEngine.event_log
  act_stats,      \* statistics['activity_statistics']
  res_stats,      \* statistics['resource_statistics']
  total_time,     \* statistics['total_simulation_time']
  duration,       \* the argument of run
  pc,             \* position of the caller / of run
  next_entity,    \* run's local next_entity (index into entities, 0 = None)
  last_begin,     \* outcome of the last process_begin_service_event call
  acquired,       \* its local list required_resources (indices)
  begun,          \* per flow entity: number of successful begins so far
  nevents,        \* number of Event objects constructed so far
  sampler,        \* the values Activity.duration_function can return
  valid,          \* what model.validate() returned to the caller ("none": not called)
  run_no,         \* 1: the first engine, 2: a second engine of the caller
  start,          \* the model and the calendar as they were when run was called
  samples,        \* the durations sampled by the first run (consumed by the second)
  first,          \* the outcome of the first engine's run
  imports,        \* the class names bound in the namespace of engine.py
  ret             \* the caller's last call on the calendar and what it returned

vars == <<activities, entities, resources, calendar, clock, event_log,
          act_stats, res_stats, total_time, duration, pc, next_entity,
          last_begin, acquired, begun, nevents, sampler, valid, run_no,
          start, samples, first, imports, ret>>

\* what no step of run writes
caller == <<sampler, valid, run_no, first, imports, ret>>

(***************************************************************************)
(* list.sort(key=...): ascending by key, and stable: items of equal key    *)
(* keep their order.  s is a sequence of <<key, item>>; the place of s[i]  *)
(* in the result is the number of pairs that go before it, plus one.       *)
(***************************************************************************)
GoesBefore(s, j, i) == s[j][1] < s[i][1] \/ (s[j][1] = s[i][1] /\ j < i)

StableSort(s) ==
  [p \in DOMAIN s |->
     s[CHOOSE i \in DOMAIN s :
         Cardinality({j \in DOMAIN s : GoesBefore(s, j, i)}) = p - 1]]

\* a list comprehension over a list: the selected indices, in list order
InOrder(S) ==
  [p \in 1..Cardinality(S) |->
     CHOOSE x \in S : Cardinality({y \in S : y < x}) = p - 1]

\* F(e) with e evaluated once (a local variable of the source)
With(e, F(_)) == CHOOSE r \in {F(x) : x \in {e}} : TRUE

Max2(a, b) == IF a >= b THEN a ELSE b

RECURSIVE MaxOf(_)
MaxOf(s) == IF Len(s) = 1 THEN s[1] ELSE Max2(s[1], MaxOf(Tail(s)))

(***************************************************************************)
(* core.py                                                                 *)
(***************************************************************************)
\* faulty variant: the first unprocessed entity of the list, whatever its
\* arrival_time
GetNextUnprocessedFirst(q) ==
  LET unprocessed == InOrder({i \in DOMAIN q : q[i].departure_time = 0})
  IN IF unprocessed = <<>> THEN 0 ELSE unprocessed[1]

\* FlowEntityQueue.get_next_unprocessed: index of the entity, 0 for None
GetNextUnprocessed(q) ==
  LET unprocessed == InOrder({i \in DOMAIN q : q[i].departure_time = 0})
      sorted == StableSort([k \in DOMAIN unprocessed |->
                              <<q[unprocessed[k]].arrival_time, unprocessed[k]>>])
  IN IF unprocessed = <<>> THEN 0 ELSE sorted[1][2]

\* faulty variant: the first available resource of the type, whatever its ready_time
GetResourceFirst(q, type) ==
  LET available_resources ==
        InOrder({i \in DOMAIN q : q[i].type = type /\ q[i].available})
  IN IF available_resources = <<>> THEN 0 ELSE available_resources[1]

\* ResourceEntityQueue.get_resource: index of the resource, 0 for None
GetResource(q, type) ==
  LET available_resources ==
        InOrder({i \in DOMAIN q : q[i].type = type /\ q[i].available})
      sorted == StableSort([k \in DOMAIN available_resources |->
                              <<q[available_resources[k]].ready_time,
                                available_resources[k]>>])
  IN IF available_resources = <<>> THEN 0 ELSE sorted[1][2]

\* index of the first object of q with this id, 0 when there is none
RECURSIVE FirstWithId(_, _, _)
FirstWithId(q, id, i) ==
  IF i > Len(q) THEN 0
  ELSE IF q[i].id = id THEN i ELSE FirstWithId(q, id, i + 1)

\* FlowEntityQueue.update_entity(entity_id, departure_time=t)
UpdateDeparture(q, id, t) ==
  LET i == FirstWithId(q, id, 1)
  IN IF i = 0 THEN q ELSE [q EXCEPT ![i].departure_time = t]

\* faulty variant: releasing a resource leaves its ready_time as it was
UpdateReadyTimeNoop(q, id, t) == q

\* ResourceEntityQueue.update_entity(entity_id, ready_time=t)
UpdateReadyTime(q, id, t) ==
  LET i == FirstWithId(q, id, 1)
  IN IF i = 0 THEN q ELSE [q EXCEPT ![i].ready_time = t]

\* ResourceEntityQueue.update_entity(entity_id, available=False)
UpdateUnavailable(q, id) ==
  LET i == FirstWithId(q, id, 1)
  IN IF i = 0 THEN q ELSE [q EXCEPT ![i].available = FALSE]

\* Event(time, type, entity_id, activity_id); seq is the object's identity,
\* the number of Event objects constructed before it
MkEvent(time, type, entity_id, activity_id, seq) ==
  [time |-> time, type |-> type, entity_id |-> entity_id,
   activity_id |-> activity_id, seq |-> seq]

\* faulty variant: the sort also orders END_SERVICE before BEGIN_SERVICE at a tie
ScheduleEventKindFirst(cal, ev) ==
  LET appended == Append(cal, ev)
      sorted == StableSort([k \in DOMAIN appended |->
                              <<2 * appended[k].time
                                  + (IF appended[k].type = END_SERVICE THEN 0 ELSE 1),
                                appended[k]>>])
  IN [k \in DOMAIN sorted |-> sorted[k][2]]

\* EventCalendar.schedule_event: append, then list.sort(), which compares
\* events by Event.__lt__, that is by time alone
ScheduleEvent(cal, ev) ==
  LET appended == Append(cal, ev)
      sorted == StableSort([k \in DOMAIN appended |->
                              <<appended[k].time, appended[k]>>])
  IN [k \in DOMAIN sorted |-> sorted[k][2]]

\* EventCalendar.get_next_event (callers test the calendar first)
GetNextEvent(cal) == cal[1]

\* EventCalendar.remove_event: list.remove of the first equal (same) object
RECURSIVE RemoveEvent(_, _)
RemoveEvent(cal, ev) ==
  IF cal = <<>> THEN <<>>
  ELSE IF Head(cal) = ev THEN Tail(cal)
  ELSE <<Head(cal)>> \o RemoveEvent(Tail(cal), ev)

\* faulty variant: the event to remove is looked for by its fields, as if
\* Event defined __eq__
RECURSIVE RemoveEqualFields(_, _)
RemoveEqualFields(cal, ev) ==
  IF cal = <<>> THEN <<>>
  ELSE IF [Head(cal) EXCEPT !.seq = 0] = [ev EXCEPT !.seq = 0] THEN Tail(cal)
  ELSE <<Head(cal)>> \o RemoveEqualFields(Tail(cal), ev)

CalendarRemoveEventByFields(cal, ev) ==
  IF \E k \in DOMAIN cal : [cal[k] EXCEPT !.seq = 0] = [ev EXCEPT !.seq = 0]
  THEN [events |-> RemoveEqualFields(cal, ev), value |-> "True"]
  ELSE [events |-> cal, value |-> "False"]

\* EventCalendar.remove_event with its result: `event in self.events`
\* (Event has no __eq__: the same object), then list.remove
CalendarRemoveEvent(cal, ev) ==
  IF \E k \in DOMAIN cal : cal[k] = ev
  THEN [events |-> RemoveEvent(cal, ev), value |-> "True"]
  ELSE [events |-> cal, value |-> "False"]

\* EventCalendar.get_next_event with its result: <<>> for None
CalendarGetNextEvent(cal) == IF cal = <<>> THEN <<>> ELSE <<cal[1]>>

\* faulty variant: advance without its check
AdvanceAcceptsAny(now, time) == TRUE

\* faulty variant: advance also rejects a time equal to the current time
AdvanceAcceptsLater(now, time) == time > now

\* SimulationClock.advance accepts time (it raises ValueError otherwise)
AdvanceAccepts(now, time) == ~(time < now)

(***************************************************************************)
(* model.py: Model.validate                                                *)
(***************************************************************************)
\* every id of the list from position k on is an activity of the model
RECURSIVE AllActivities(_, _, _)
AllActivities(ids, acts, k) ==
  IF k > Len(ids) THEN TRUE
  ELSE IF ids[k] \notin DOMAIN acts THEN FALSE
  ELSE AllActivities(ids, acts, k + 1)

\* faulty variant: only the successor lists are checked
ModelValidateSuccessorsOnly(acts, ents) ==
  \A a \in DOMAIN acts : AllActivities(acts[a].successor_activities, acts, 1)

\* Model.validate(): False at the first unknown successor id, then False at
\* the first initial flow entity of an unknown activity, else True
ModelValidate(acts, ents) ==
  IF ~(\A a \in DOMAIN acts :
         AllActivities(acts[a].successor_activities, acts, 1))
  THEN FALSE
  ELSE AllActivities([i \in DOMAIN ents |-> ents[i].activity_id], acts, 1)

(***************************************************************************)
(* engine.py: process_begin_service_event                                  *)
(***************************************************************************)
\* lines 169-175: one get_resource per element of required_resources, in
\* order; got holds what was found before the first miss
RECURSIVE AcquireFrom(_, _, _, _)
AcquireFrom(q, req, k, got) ==
  IF k > Len(req) THEN [ok |-> TRUE, got |-> got]
  ELSE LET r == GetResource(q, req[k])
       IN IF r = 0 THEN [ok |-> FALSE, got |-> got]
          ELSE AcquireFrom(q, req, k + 1, Append(got, r))

AcquireResources(q, req) == AcquireFrom(q, req, 1, <<>>)

\* faulty variant: the service begins when the entity arrives, whatever the
\* resources' ready times
BeginTimeArrival(entity, q, got) == entity.arrival_time

\* line 178
BeginTime(entity, q, got) ==
  Max2(entity.arrival_time, MaxOf([k \in DOMAIN got |-> q[got[k]].ready_time]))

\* faulty variant: a resource that is neither released nor disposable is marked
\* unavailable
RECURSIVE ServeResourcesHolding(_, _, _, _, _, _, _)
ServeResourcesHolding(q, rs, objs, k, activity, begin_time, end_time) ==
  IF k > Len(objs) THEN [resources |-> q, res_stats |-> rs, raised |-> FALSE]
  ELSE
    LET r == objs[k] IN
    IF r.id \notin DOMAIN rs
    THEN [resources |-> q, res_stats |-> rs, raised |-> TRUE]
    ELSE
      LET rs1 == [rs EXCEPT ![r.id] = Append(@, <<begin_time, end_time>>)]
          q1  == IF r.type \in activity.released_resources
                 THEN UpdateReadyTime(q, r.id, end_time)
                 ELSE UpdateUnavailable(q, r.id)
      IN ServeResourcesHolding(q1, rs1, objs, k + 1, activity, begin_time,
                               end_time)

\* lines 187-196: for each acquired resource, record the busy period, then
\* release it, consume it, or leave it as it is.  objs are the acquired
\* objects (type and disposable never change); raised: KeyError at line 189
RECURSIVE ServeResources(_, _, _, _, _, _, _)
ServeResources(q, rs, objs, k, activity, begin_time, end_time) ==
  IF k > Len(objs) THEN [resources |-> q, res_stats |-> rs, raised |-> FALSE]
  ELSE
    LET r == objs[k] IN
    IF r.id \notin DOMAIN rs
    THEN [resources |-> q, res_stats |-> rs, raised |-> TRUE]
    ELSE
      LET rs1 == [rs EXCEPT ![r.id] = Append(@, <<begin_time, end_time>>)]
          q1  == IF r.type \in activity.released_resources
                 THEN UpdateReadyTime(q, r.id, end_time)
                 ELSE IF r.disposable THEN UpdateUnavailable(q, r.id)
                 ELSE q
      IN ServeResources(q1, rs1, objs, k + 1, activity, begin_time, end_time)

\* faulty variant: only the waiting time is recorded
RecordServiceWaitingOnly(as, activity_id, waiting_time, service_time) ==
  [as EXCEPT ![activity_id].waiting_times = Append(@, waiting_time)]

\* lines 162-164 and 202-205
RecordService(as, activity_id, waiting_time, service_time) ==
  [as EXCEPT ![activity_id].waiting_times = Append(@, waiting_time),
             ![activity_id].service_times = Append(@, service_time)]

\* the handler returned False: nothing of st has changed
BeginFailed(st) ==
  [st EXCEPT !.ok = FALSE, !.raised = FALSE, !.acquired = <<>>]

\* lines 148-166: the activity requires no resource
BeginWithoutResources(st, entity, activity, d) ==
  LET begin_time == entity.arrival_time
      end_time   == begin_time + d
      end_event  == MkEvent(end_time, END_SERVICE, entity.id,
                            entity.activity_id, st.nevents)
  IN [st EXCEPT !.ok = TRUE, !.raised = FALSE, !.acquired = <<>>,
                !.calendar = ScheduleEvent(st.calendar, end_event),
                !.nevents = st.nevents + 1,
                !.act_stats = RecordService(st.act_stats, activity.id, 0, d)]

\* lines 177-207: every required resource was found
CommitBegin(st, entity, activity, d, got) ==
  With(BeginTime(entity, st.resources, got), LAMBDA begin_time :
  With(begin_time + d, LAMBDA end_time :
  With(ServeResources(st.resources, st.res_stats,
                      [k \in DOMAIN got |-> st.resources[got[k]]],
                      1, activity, begin_time, end_time), LAMBDA served :
    IF served.raised
    THEN [st EXCEPT !.ok = FALSE, !.raised = TRUE, !.acquired = got,
                    !.resources = served.resources,
                    !.res_stats = served.res_stats]
    ELSE [st EXCEPT !.ok = TRUE, !.raised = FALSE, !.acquired = got,
                    !.resources = served.resources,
                    !.res_stats = served.res_stats,
                    !.calendar =
                      ScheduleEvent(st.calendar,
                                    MkEvent(end_time, END_SERVICE, entity.id,
                                            entity.activity_id, st.nevents)),
                    !.nevents = st.nevents + 1,
                    !.act_stats = RecordService(st.act_stats, activity.id,
                                     begin_time - entity.arrival_time, d)])))

\* faulty variant: each resource is marked unavailable as soon as it is found, so a
\* later miss leaves the earlier ones held
RECURSIVE HoldAll(_, _, _)
HoldAll(q, got, k) ==
  IF k > Len(got) THEN q
  ELSE HoldAll([q EXCEPT ![got[k]].available = FALSE], got, k + 1)

BeginWithResourcesEager(st, entity, activity, d) ==
  With(AcquireResources(st.resources, activity.required_resources), LAMBDA acq :
    IF ~acq.ok
    THEN [BeginFailed(st) EXCEPT !.resources = HoldAll(st.resources, acq.got, 1)]
    ELSE CommitBegin(st, entity, activity, d, acq.got))

\* lines 168-207: the activity requires resources
BeginWithResources(st, entity, activity, d) ==
  With(AcquireResources(st.resources, activity.required_resources), LAMBDA acq :
    IF ~acq.ok THEN BeginFailed(st)
    ELSE CommitBegin(st, entity, activity, d, acq.got))

\* Model.get_activity is activities.get(activity_id): None when absent
HasActivity(acts, activity_id) == activity_id \in DOMAIN acts

\* process_begin_service_event(entity) with the sampled duration d, on
\* st = [resources, calendar, act_stats, res_stats, nevents, ...]
ProcessBeginServiceEvent(st, acts, entity, d) ==
  IF ~HasActivity(acts, entity.activity_id) THEN BeginFailed(st)
  ELSE LET activity == acts[entity.activity_id] IN
       IF activity.required_resources = <<>>
       THEN BeginWithoutResources(st, entity, activity, d)
       ELSE BeginWithResources(st, entity, activity, d)

(***************************************************************************)
(* engine.py: process_end_service_event                                    *)
(***************************************************************************)
\* lines 233-243; the id is f"{resource_type}_{len(queue)}"
RECURSIVE GenerateResources(_, _, _, _)
GenerateResources(q, gen, k, event_time) ==
  IF k > Len(gen) THEN q
  ELSE GenerateResources(
         Append(q, [id |-> <<gen[k], Len(q)>>, type |-> gen[k],
                    ready_time |-> event_time, available |-> TRUE,
                    disposable |-> TRUE]),
         gen, k + 1, event_time)

\* lines 245-254; the id is f"{entity.id}_{successor_id}"
RECURSIVE SpawnSuccessors(_, _, _, _, _)
SpawnSuccessors(q, entity, succ, k, event_time) ==
  IF k > Len(succ) THEN q
  ELSE SpawnSuccessors(
         Append(q, [id |-> entity.id \o <<succ[k]>>, activity_id |-> succ[k],
                    arrival_time |-> event_time, departure_time |-> 0]),
         entity, succ, k + 1, event_time)

\* process_end_service_event(entity) at clock value now, on
\* st = [entities, resources, act_stats]; raised: NameError, the class is
\* not a name of engine.py
ProcessEndServiceEvent(st, acts, entity, now) ==
  IF ~HasActivity(acts, entity.activity_id)
  THEN [st EXCEPT !.ok = FALSE, !.raised = FALSE]
  ELSE
    LET activity == acts[entity.activity_id]
        stamped  == UpdateDeparture(st.entities, entity.id, now)
        counted  == [st.act_stats EXCEPT ![activity.id].completion_count = @ + 1]
        st1      == [st EXCEPT !.entities = stamped, !.act_stats = counted]
    IN IF activity.generated_resources # <<>> /\ "ResourceEntity" \notin imports
       THEN [st1 EXCEPT !.ok = FALSE, !.raised = TRUE]
       ELSE
         LET st2 == [st1 EXCEPT !.resources =
                       GenerateResources(st1.resources,
                                         activity.generated_resources, 1, now)]
         IN IF activity.successor_activities # <<>> /\ "FlowEntity" \notin imports
            THEN [st2 EXCEPT !.ok = FALSE, !.raised = TRUE]
            ELSE [st2 EXCEPT !.ok = TRUE, !.raised = FALSE,
                             !.entities =
                               SpawnSuccessors(st2.entities, entity,
                                               activity.successor_activities, 1, now)]

(***************************************************************************)
(* The state machine.                                                      *)
(***************************************************************************)
RECURSIVE SumSeq(_)
SumSeq(s) == IF s = <<>> THEN 0 ELSE Head(s) + SumSeq(Tail(s))

\* successful begins so far
TotalBegins == SumSeq(begun)

\* one more flow entity has no begin yet
PadBegun(b, n) == [i \in 1..n |-> IF i <= Len(b) THEN b[i] ELSE 0]

\* the objects of the model, and the calendar, that run starts from
Snapshot(cal, n) ==
  [entities |-> entities, resources |-> resources, calendar |-> cal,
   nevents |-> n]

\* SimulationEngine.__init__ on the Model the caller has built, whose
\* duration functions return values of S
EngineInit(S) ==
  /\ sampler = S
  /\ valid = "none"
  /\ run_no = 1
  /\ start = Snapshot(<<>>, 0)
  /\ samples = <<>>
  /\ first = [pc |-> "none"]
  /\ ret = [call |-> "none"]
  /\ calendar = <<>>
  /\ clock = 0
  /\ event_log = <<>>
  /\ act_stats = <<>>
  /\ res_stats = <<>>
  /\ total_time = 0
  /\ duration = 0
  /\ pc = "new"
  /\ next_entity = 0
  /\ last_begin = "none"
  /\ acquired = <<>>
  /\ begun = [i \in DOMAIN entities |-> 0]
  /\ nevents = 0

\* a Model built with add_activity, add_flow_entity and add_resource
ModelInit(S) ==
  /\ activities \in ActivityTables
  /\ \E ne \in 0..MaxObjects : \E nr \in 0..(MaxObjects - ne) :
       /\ entities \in InitialEntityLists(ne)
       /\ resources \in InitialResourceLists(nr)
  /\ EngineInit(S)
  /\ imports = EngineImports

Init == ModelInit(Durations)

\* the caller: engine.event_calendar.schedule_event(Event(...)) before run.
\* Explored for the models whose entities are all serviced already: with an
\* unserviced one, run does not get to the calendar (see DrainTest).
CallerSchedule ==
  /\ pc = "new"
  /\ Len(entities) + Len(resources) + nevents < MaxObjects
  /\ GetNextUnprocessed(entities) = 0
  /\ \E ce \in CallerEvents :
       calendar' = ScheduleEvent(calendar,
                                 MkEvent(ce[1], ce[2], ce[3], ce[4], nevents))
  /\ nevents' = nevents + 1
  /\ UNCHANGED <<activities, entities, resources, clock, event_log, act_stats,
                 res_stats, total_time, duration, pc, next_entity, last_begin,
                 acquired, begun, start, samples>>
  /\ UNCHANGED caller

\* run(duration), lines 77-88: initialize() fills the queues with the
\* model's objects and creates the statistics rows
Run ==
  /\ pc = "new"
  /\ duration' \in RunDurations
  /\ act_stats' = [a \in DOMAIN activities |->
                     [completion_count |-> 0, waiting_times |-> <<>>,
                      service_times |-> <<>>]]
  /\ res_stats' = [id \in {resources[i].id : i \in DOMAIN resources} |-> <<>>]
  /\ pc' = "drain"
  /\ start' = Snapshot(calendar, nevents)
  /\ UNCHANGED <<activities, entities, resources, calendar, clock, event_log,
                 total_time, next_entity, last_begin, acquired, begun, nevents,
                 samples>>
  /\ UNCHANGED caller

\* lines 91-92, 94 and 122-123, 125: next_entity = get_next_unprocessed()
\* and the test of the inner while loop
DrainTest ==
  /\ pc = "drain"
  /\ next_entity' = GetNextUnprocessed(entities)
  /\ pc' = IF next_entity' # 0 /\ clock < duration THEN "begin" ELSE "main"
  /\ UNCHANGED <<activities, entities, resources, calendar, clock, event_log,
                 act_stats, res_stats, total_time, duration, last_begin,
                 acquired, begun, nevents, start, samples>>
  /\ UNCHANGED caller

\* r is the outcome of a begin: get_duration was called (lines 153, 181) iff
\* the handler went past its two early returns
Sampled(r) == r.ok \/ r.raised

\* the second engine's sampler returns what the first engine's returned
Replays(r, d) ==
  (run_no = 2 /\ Sampled(r)) => (samples # <<>> /\ d = Head(samples))

NextSamples(r, d) ==
  IF ~Sampled(r) THEN samples
  ELSE IF run_no = 1 THEN Append(samples, d) ELSE Tail(samples)

BeginState(cal) ==
  [resources |-> resources, calendar |-> cal, act_stats |-> act_stats,
   res_stats |-> res_stats, nevents |-> nevents, ok |-> FALSE,
   raised |-> FALSE, acquired |-> <<>>]

\* lines 93 and 124: the body of the inner while loop
DrainBegin ==
  /\ pc = "begin"
  /\ \E d \in sampler :
       \E r \in {ProcessBeginServiceEvent(BeginState(calendar), activities,
                                          entities[next_entity], d)} :
          /\ r.ok => TotalBegins < MaxBegins
          /\ Replays(r, d)
          /\ samples' = NextSamples(r, d)
          /\ resources' = r.resources
          /\ calendar' = r.calendar
          /\ act_stats' = r.act_stats
          /\ res_stats' = r.res_stats
          /\ nevents' = r.nevents
          /\ acquired' = r.acquired
          /\ last_begin' = IF r.ok THEN "ok" ELSE "failed"
          /\ begun' = IF r.ok THEN [begun EXCEPT ![next_entity] = @ + 1]
                      ELSE begun
          /\ pc' = IF r.raised THEN "error" ELSE "drain"
  /\ UNCHANGED <<activities, entities, clock, event_log, total_time, duration,
                 next_entity, start>>
  /\ UNCHANGED caller

\* faulty variant: the entity is looked up by id alone
RECURSIVE FindEntityById(_, _, _)
FindEntityById(q, ev, i) ==
  IF i > Len(q) THEN 0
  ELSE IF q[i].id = ev.entity_id THEN i
  ELSE FindEntityById(q, ev, i + 1)

\* lines 110-113 and 116-119: the first entity of the queue the event names
RECURSIVE FindEntity(_, _, _)
FindEntity(q, ev, i) ==
  IF i > Len(q) THEN 0
  ELSE IF q[i].id = ev.entity_id /\ q[i].activity_id = ev.activity_id THEN i
  ELSE FindEntity(q, ev, i + 1)

\* faulty variant: the main loop goes on as long as the calendar has an event
MainLoopTestCalendarOnly(cal, now, limit) == cal # <<>>

\* line 97: the test of the outer while loop
MainLoopTest(cal, now, limit) == cal # <<>> /\ now < limit

\* lines 97-119: one event of the main loop, up to the inner while loop
MainStep ==
  /\ pc = "main"
  /\ MainLoopTest(calendar, clock, duration)
  /\ LET next_event == GetNextEvent(calendar)
         removed    == RemoveEvent(calendar, next_event)
         i          == FindEntity(entities, next_event, 1)
     IN
     IF ~AdvanceAccepts(clock, next_event.time)
     THEN /\ calendar' = removed
          /\ pc' = "error"
          /\ last_begin' = "none"
          /\ UNCHANGED <<entities, resources, clock, event_log, act_stats,
                         res_stats, acquired, begun, nevents, samples>>
     ELSE
       /\ clock' = next_event.time
       /\ event_log' = Append(event_log, next_event)
       /\ IF i = 0
          THEN /\ calendar' = removed
               /\ pc' = "drain"
               /\ last_begin' = "none"
               /\ UNCHANGED <<entities, resources, act_stats, res_stats,
                              acquired, begun, nevents, samples>>
          ELSE IF next_event.type = BEGIN_SERVICE
          THEN \E d \in sampler :
                 \E r \in {ProcessBeginServiceEvent(BeginState(removed),
                                                    activities, entities[i], d)} :
                    /\ r.ok => TotalBegins < MaxBegins
                    /\ Replays(r, d)
                    /\ samples' = NextSamples(r, d)
                    /\ resources' = r.resources
                    /\ calendar' = r.calendar
                    /\ act_stats' = r.act_stats
                    /\ res_stats' = r.res_stats
                    /\ nevents' = r.nevents
                    /\ acquired' = r.acquired
                    /\ last_begin' = IF r.ok THEN "dispatch_ok"
                                     ELSE "dispatch_failed"
                    /\ begun' = IF r.ok THEN [begun EXCEPT ![i] = @ + 1]
                                ELSE begun
                    /\ pc' = IF r.raised THEN "error" ELSE "drain"
                    /\ UNCHANGED entities
          ELSE \E r \in {ProcessEndServiceEvent(
                           [entities |-> entities, resources |-> resources,
                            act_stats |-> act_stats, ok |-> FALSE,
                            raised |-> FALSE],
                           activities, entities[i], next_event.time)} :
                  /\ entities' = r.entities
                  /\ resources' = r.resources
                  /\ act_stats' = r.act_stats
                  /\ begun' = PadBegun(begun, Len(r.entities))
                  /\ calendar' = removed
                  /\ last_begin' = "none"
                  /\ pc' = IF r.raised THEN "error" ELSE "drain"
                  /\ UNCHANGED <<res_stats, acquired, nevents, samples>>
  /\ UNCHANGED <<activities, total_time, duration, next_entity, start>>
  /\ UNCHANGED caller

\* faulty variant: the main loop can be left while it still has an event to
\* process
FinalizeAnytime ==
  /\ pc = "main"
  /\ total_time' = clock
  /\ pc' = "done"
  /\ UNCHANGED <<activities, entities, resources, calendar, clock, event_log,
                 act_stats, res_stats, duration, next_entity, last_begin,
                 acquired, begun, nevents, start, samples>>
  /\ UNCHANGED caller

\* lines 97 and 127-130: the main loop ends and run returns
Finalize ==
  /\ pc = "main"
  /\ ~MainLoopTest(calendar, clock, duration)
  /\ total_time' = clock
  /\ pc' = "done"
  /\ UNCHANGED <<activities, entities, resources, calendar, clock, event_log,
                 act_stats, res_stats, duration, next_entity, last_begin,
                 acquired, begun, nevents, start, samples>>
  /\ UNCHANGED caller

Next == CallerSchedule \/ Run \/ DrainTest \/ DrainBegin \/ MainStep \/ Finalize

Spec == Init /\ [][Next]_vars

\* run is a sequential program: it takes its next step as long as it has one
FairSpec == Spec /\ WF_vars(Next)

(***************************************************************************)
(* A model whose duration functions can return a negative value.           *)
(***************************************************************************)
NegativeInit == ModelInit(NegativeDurations)

NegativeSpec == NegativeInit /\ [][Next]_vars

(***************************************************************************)
(* Model.validate on models whose successor lists can name an activity     *)
(* the model does not have.                                                *)
(***************************************************************************)
SuccessorLists == { <<>>, <<"B">>, <<"Z">>, <<"B", "Z">> }

ValidateTables ==
  { [a \in {"A", "B"} |-> MkActivity(a, <<>>, {}, <<>>, sl[a], 0)]
    : sl \in [{"A", "B"} -> SuccessorLists] }

ValidateInit ==
  /\ activities \in ValidateTables
  /\ \E ne \in 0..MaxObjects : entities \in InitialEntityLists(ne)
  /\ resources = <<>>
  /\ EngineInit(Durations)
  /\ imports = EngineImports

\* the caller: model.validate()
Validate ==
  /\ pc = "new"
  /\ valid = "none"
  /\ valid' = IF ModelValidate(activities, entities) THEN "True" ELSE "False"
  /\ UNCHANGED <<activities, entities, resources, calendar, clock, event_log,
                 act_stats, res_stats, total_time, duration, pc, next_entity,
                 last_begin, acquired, begun, nevents, sampler, run_no, start,
                 samples, first, imports, ret>>

ValidateNext == Validate

ValidateSpec == ValidateInit /\ [][ValidateNext]_vars

(***************************************************************************)
(* Two engines.  After the first engine's run has returned or raised, the  *)
(* caller builds a second engine, schedules the same events on its         *)
(* calendar and calls run with the same duration; its duration functions   *)
(* return the values they returned in the first run.                       *)
(***************************************************************************)
\* faulty variant: the second engine is built on the Model object of the first:
\* initialize() appends the model's own objects (lines 55-60), which the first
\* run has written to
SameModelObject ==
  [entities  |-> SubSeq(entities, 1, Len(start.entities)),
   resources |-> SubSeq(resources, 1, Len(start.resources))]

\* the second engine is built on a separately constructed, identical model
IdenticalModel ==
  [entities |-> start.entities, resources |-> start.resources]

\* engine2 = SimulationEngine(model2); the same schedule_event calls;
\* engine2.run(duration) up to its first loop test
SecondEngine ==
  /\ run_no = 1
  /\ pc \in {"done", "error"}
  /\ first' = [pc |-> pc, event_log |-> event_log, entities |-> entities,
               resources |-> resources, calendar |-> calendar,
               clock |-> clock, act_stats |-> act_stats,
               res_stats |-> res_stats, total_time |-> total_time]
  /\ run_no' = 2
  /\ entities' = IdenticalModel.entities
  /\ resources' = IdenticalModel.resources
  /\ calendar' = start.calendar
  /\ nevents' = start.nevents
  /\ clock' = 0
  /\ event_log' = <<>>
  /\ total_time' = 0
  /\ act_stats' = [a \in DOMAIN activities |->
                     [completion_count |-> 0, waiting_times |-> <<>>,
                      service_times |-> <<>>]]
  /\ res_stats' = [id \in {resources'[i].id : i \in DOMAIN resources'} |-> <<>>]
  /\ pc' = "drain"
  /\ next_entity' = 0
  /\ last_begin' = "none"
  /\ acquired' = <<>>
  /\ begun' = [i \in DOMAIN entities' |-> 0]
  /\ UNCHANGED <<activities, duration, sampler, valid, start, samples,
                 imports, ret>>

TwoRunNext == Next \/ SecondEngine

TwoRunSpec == Init /\ [][TwoRunNext]_vars

(***************************************************************************)
(* The engine in a process whose caller has bound the two class names      *)
(* that engine.py uses without importing them (sdesa.engine.FlowEntity =   *)
(* FlowEntity, and the same for ResourceEntity): the only runs in which    *)
(* lines 233-254 get past the constructor calls.                           *)
(***************************************************************************)
CallerBoundNames == {"FlowEntity", "ResourceEntity"}

\* (required, released, generated, successors) of activity "A" in these runs
ImportedShapes ==
  { <<<<>>, {}, <<>>, <<"B">>>>,
    <<<<>>, {}, <<>>, <<"B", "B">>>>,
    <<<<>>, {}, <<"x">>, <<>>>>,
    <<<<"x">>, {}, <<"x">>, <<>>>>,
    <<<<"x">>, {"x"}, <<"x">>, <<"B">>>> }

ImportedTables ==
  { [a \in {"A", "B"} |->
       IF a = "A"
       THEN MkActivity("A", sh[1], sh[2], sh[3], sh[4], 0)
       ELSE MkActivity("B", <<>>, {}, <<>>, <<>>, 10)]
    : sh \in ImportedShapes }

\* Model.initial_resources of length n whose ids the caller wrote as
\* "<type>_<number>", counting from 1
NamedResourceLists(n) ==
  { [i \in 1..n |->
       [id |-> <<l[i][1], i>>, type |-> l[i][1], ready_time |-> l[i][2],
        available |-> TRUE, disposable |-> l[i][3]]]
    : l \in [1..n -> ResourceChoices] }

ImportedInit ==
  /\ activities \in ImportedTables
  /\ \E ne \in 0..MaxObjects : \E nr \in 0..(MaxObjects - ne) :
       /\ entities \in InitialEntityLists(ne)
       /\ resources \in NamedResourceLists(nr)
  /\ EngineInit(Durations)
  /\ imports = EngineImports \cup CallerBoundNames

ImportedSpec == ImportedInit /\ [][Next]_vars

(***************************************************************************)
(* The event calendar of an engine under a caller that only calls          *)
(* schedule_event, remove_event and get_next_event on it.                  *)
(***************************************************************************)
MaxCalendarEvents == 4

CalendarTimes == 0..1

CalendarInit ==
  /\ activities \in { t \in ActivityTables : t["A"].required_resources = <<>>
                                             /\ t["A"].generated_resources = <<>>
                                             /\ t["A"].successor_activities = <<>> }
  /\ entities = <<>>
  /\ resources = <<>>
  /\ EngineInit(Durations)
  /\ imports = EngineImports

\* the Event objects the caller has constructed so far, and one more
CallerEventObjects ==
  { MkEvent(t, ty, <<"e", 1>>, "A", k) :
      t \in CalendarTimes, ty \in {BEGIN_SERVICE, END_SERVICE}, k \in 0..nevents }

CalendarUnchanged ==
  UNCHANGED <<activities, entities, resources, clock, event_log, act_stats,
              res_stats, total_time, duration, pc, next_entity, last_begin,
              acquired, begun, start, samples, sampler, valid, run_no, first,
              imports>>

\* calendar.schedule_event(Event(...)) with a new Event object
CalendarSchedule ==
  /\ pc = "new"
  /\ nevents < MaxCalendarEvents
  /\ \E t \in CalendarTimes : \E ty \in {BEGIN_SERVICE, END_SERVICE} :
       calendar' = ScheduleEvent(calendar,
                                 MkEvent(t, ty, <<"e", 1>>, "A", nevents))
  /\ nevents' = nevents + 1
  /\ ret' = [call |-> "schedule_event"]
  /\ CalendarUnchanged

\* calendar.remove_event(ev), ev in the calendar or not (an object that is
\* in the calendar is taken as it is there)
CalendarRemove ==
  /\ pc = "new"
  /\ \E ev \in { e \in CallerEventObjects :
                   e.seq < nevents => \A k \in DOMAIN calendar :
                                        calendar[k].seq = e.seq => calendar[k] = e } :
       \E r \in {CalendarRemoveEvent(calendar, ev)} :
          /\ calendar' = r.events
          /\ ret' = [call |-> "remove_event", event |-> ev, value |-> r.value]
  /\ UNCHANGED nevents
  /\ CalendarUnchanged

\* calendar.get_next_event()
CalendarGetNext ==
  /\ pc = "new"
  /\ ret' = [call |-> "get_next_event", value |-> CalendarGetNextEvent(calendar)]
  /\ UNCHANGED <<calendar, nevents>>
  /\ CalendarUnchanged

CalendarNext == CalendarSchedule \/ CalendarRemove \/ CalendarGetNext

CalendarSpec == CalendarInit /\ [][CalendarNext]_vars

(***************************************************************************)
(* The claims.                                                             *)
(***************************************************************************)
Returned == pc \in {"done", "error"}

\* C1: run(duration) terminates.  Stated in its weakest form: run eventually
\* returns or raises, or the run is one the bound MaxBegins cuts short.
RunTerminates == <>(Returned \/ TotalBegins >= MaxBegins)

\* C2: after a failed begin attempt the drain loop exits: the next evaluation
\* of its condition does not hand an entity to process_begin_service_event
\* before the main loop has processed another calendar event.
DrainStopsAtFirstFailure ==
  [][(pc = "drain" /\ last_begin = "failed") => pc' = "main"]_vars

\* C3: each flow entity is begun at most once for its activity (so at most
\* one END_SERVICE of it is scheduled and one sample recorded).
ServiceBracketing == \A i \in DOMAIN begun : begun[i] <= 1

LogNonDecreasing ==
  \A i, j \in DOMAIN event_log :
    i < j => event_log[i].time <= event_log[j].time

\* C4: the timestamps of the event log are non-decreasing in log order, and
\* the clock never decreases from one step to the next.
MonotoneTime == [](LogNonDecreasing) /\ [][clock' >= clock]_vars

\* C4 witness: two events of different times have been processed.
MonotoneTimeWitness ==
  /\ Len(event_log) >= 2
  /\ event_log[1].time < event_log[2].time
  /\ clock = event_log[Len(event_log)].time

\* a step in which process_begin_service_event returned False
BeginFailedStep ==
  /\ pc \in {"begin", "main"}
  /\ pc' = "drain"
  /\ last_begin' \in {"failed", "dispatch_failed"}

\* C5: a begin that returns failure changes no resource, schedules no event,
\* records no sample and no busy interval, and leaves the entity as it was
\* (in the drain loop: unprocessed).
AtomicAcquisition ==
  [][BeginFailedStep =>
       /\ resources' = resources
       /\ res_stats' = res_stats
       /\ act_stats' = act_stats
       /\ nevents' = nevents
       /\ calendar' = (IF pc = "begin" THEN calendar ELSE Tail(calendar))
       /\ entities' = entities
       /\ (pc = "begin" => entities'[next_entity].departure_time = 0)]_vars

\* C5 witness: a begin has failed on its second required type while a
\* resource of its first required type was available.
AtomicAcquisitionWitness ==
  /\ pc = "drain"
  /\ last_begin = "failed"
  /\ next_entity # 0
  /\ HasActivity(activities, entities[next_entity].activity_id)
  /\ LET req == activities[entities[next_entity].activity_id].required_resources
     IN /\ Len(req) = 2
        /\ GetResource(resources, req[1]) # 0
        /\ GetResource(resources, req[2]) = 0

\* C6: the resources acquired by a single begin are pairwise distinct.
DistinctAcquisition ==
  \A i, j \in DOMAIN acquired : i # j => acquired[i] # acquired[j]

\* two busy intervals share at most an endpoint
Disjoint(p, q) == p[2] <= q[1] \/ q[2] <= p[1]

\* C7: for every resource, any two busy intervals recorded for it are
\* non-overlapping.
NonOverlappingBusy ==
  \A id \in DOMAIN res_stats :
    \A i, j \in DOMAIN res_stats[id] :
      i < j => Disjoint(res_stats[id][i], res_stats[id][j])

\* C8: a disposable resource that has been acquired (a busy interval is
\* recorded for it) is unavailable, whatever the activity releases.
DisposableSingleUse ==
  \A i \in DOMAIN resources :
    (/\ resources[i].disposable
     /\ resources[i].id \in DOMAIN res_stats
     /\ res_stats[resources[i].id] # <<>>) => ~resources[i].available

\* the resources get_resource(type) chooses among
Candidates(q, type) == {i \in DOMAIN q : q[i].type = type /\ q[i].available}

\* C9: get_resource(type) returns the available resource of that type with
\* the smallest ready_time, the earliest inserted one among equals, and none
\* when there is no available resource of that type.
GetResourceSelectsEarliest ==
  \A type \in Types :
    LET r == GetResource(resources, type)
        C == Candidates(resources, type)
    IN IF C = {} THEN r = 0
       ELSE /\ r \in C
            /\ \A j \in C :
                 \/ resources[r].ready_time < resources[j].ready_time
                 \/ (resources[r].ready_time = resources[j].ready_time /\ r <= j)

\* C9 witness: a begin has acquired the second resource of a type although
\* the first one, of a later ready_time, is still available.
GetResourceWitness ==
  /\ last_begin = "ok"
  /\ acquired = <<2>>
  /\ resources[1].type = resources[2].type
  /\ resources[1].available
  /\ resources[1].ready_time > 0

PriorityOf(ev) ==
  IF HasActivity(activities, ev.activity_id)
  THEN activities[ev.activity_id].priority ELSE 0

\* C11: of two calendar events of the same time and the same kind, the one
\* whose activity has the higher priority comes first.
PriorityFirstAtTies ==
  \A i, j \in DOMAIN calendar :
    (/\ i < j
     /\ calendar[i].time = calendar[j].time
     /\ calendar[i].type = calendar[j].type)
      => PriorityOf(calendar[i]) >= PriorityOf(calendar[j])

\* scenario S5: entity slow is at a no-resource activity, entity fast at
\* another no-resource activity of higher priority, both unserviced and
\* arriving at the same time
TieBreakPair(slow, fast) ==
  /\ HasActivity(activities, entities[slow].activity_id)
  /\ HasActivity(activities, entities[fast].activity_id)
  /\ LET s == activities[entities[slow].activity_id]
         f == activities[entities[fast].activity_id]
     IN /\ s.required_resources = <<>>
        /\ f.required_resources = <<>>
        /\ s.priority < f.priority
  /\ entities[slow].arrival_time = entities[fast].arrival_time
  /\ entities[fast].departure_time = 0

\* C12: in scenario S5, once the entity at the lower-priority activity has
\* begun service, the entity at the higher-priority activity has begun
\* service before it and its BEGIN_SERVICE event is in the event log,
\* whichever of the two was added to the model first.
HigherPriorityBeginsFirst ==
  \A slow, fast \in DOMAIN entities :
    (TieBreakPair(slow, fast) /\ begun[slow] > 0)
      => /\ begun[fast] > 0
         /\ \E k \in DOMAIN event_log :
              /\ event_log[k].type = BEGIN_SERVICE
              /\ event_log[k].entity_id = entities[fast].id

\* scenario S3 at the explored size: activity A requires type "x" and does
\* not release it, the k resources are disposable resources of type "x",
\* and n > k unserviced entities arrive at A at time 0
DisposableScenario ==
  /\ activities["A"].required_resources = <<"x">>
  /\ activities["A"].released_resources = {}
  /\ resources # <<>>
  /\ \A i \in DOMAIN resources :
       resources[i].type = "x" /\ resources[i].disposable
  /\ Len(entities) > Len(resources)
  /\ \A i \in DOMAIN entities :
       /\ entities[i].activity_id = "A"
       /\ entities[i].arrival_time = 0
       /\ entities[i].departure_time = 0

\* run has returned with k completions of A by k distinct entities, the
\* other entities unprocessed
DisposableOutcome(k) ==
  /\ pc = "done"
  /\ act_stats["A"].completion_count = k
  /\ Cardinality({i \in DOMAIN entities : entities[i].departure_time # 0}) = k
  /\ Cardinality({i \in DOMAIN begun : begun[i] = 1}) = k

\* C13: in scenario S3 run returns with exactly k distinct entities completed
\* (completion count k) and the other n - k entities unprocessed.  Runs the
\* bound MaxBegins cuts short are excused.
DisposableConsumption ==
  DisposableScenario =>
    <>(DisposableOutcome(Len(resources)) \/ TotalBegins >= MaxBegins)

\* scenario S1 at the explored size: a chain of no-resource activities
\* starting at A (A -> B), one initial entity at A, arriving at 0, and no
\* event but those the engine's begins have scheduled
ChainScenario ==
  /\ nevents = TotalBegins
  /\ \A a \in DOMAIN act_stats : \A k \in DOMAIN act_stats[a].service_times :
       act_stats[a].service_times[k] = 1      \* constant duration 1
  /\ activities["A"].required_resources = <<>>
  /\ activities["A"].generated_resources = <<>>
  /\ activities["A"].successor_activities = <<"B">>
  /\ resources = <<>>
  /\ Len(entities) >= 1
  /\ entities[1].activity_id = "A"
  /\ entities[1].arrival_time = 0
  /\ \A i \in DOMAIN entities : i > 1 => entities[i].activity_id # "A"
  /\ pc # "new"

\* C14: in scenario S1 the run raises no error, the initial entity is served
\* by A exactly once (one sample, one END_SERVICE, completion count at most
\* 1), and every recorded waiting time is 0.
ChainRunsOnce ==
  ChainScenario =>
    /\ pc # "error"
    /\ begun[1] <= 1
    /\ \A a \in DOMAIN act_stats :
         /\ act_stats[a].completion_count <= 1
         /\ Len(act_stats[a].service_times) <= 1
         /\ \A k \in DOMAIN act_stats[a].waiting_times :
              act_stats[a].waiting_times[k] = 0
    /\ Cardinality({k \in DOMAIN calendar :
                      calendar[k].type = END_SERVICE
                      /\ calendar[k].activity_id = "A"}) <= 1

\* scenario S2: one non-disposable resource of type "x", activity A requires
\* and releases "x", two unserviced entities arrive at A at time 0, and no
\* event but those the engine's begins have scheduled
SharedResourceScenario ==
  /\ pc # "new"
  /\ activities["A"].required_resources = <<"x">>
  /\ activities["A"].released_resources = {"x"}
  /\ Len(resources) = 1
  /\ resources[1].type = "x"
  /\ ~resources[1].disposable
  /\ Len(entities) = 2
  /\ \A i \in DOMAIN entities :
       entities[i].activity_id = "A" /\ entities[i].arrival_time = 0
  /\ nevents = TotalBegins
  /\ \A k \in DOMAIN act_stats["A"].service_times :
       act_stats["A"].service_times[k] = 1     \* a constant positive duration

\* C15: in scenario S2 the two services of the resource are of different
\* entities: when two begins have succeeded, each entity has begun once, the
\* first sample waited 0 and the second waited for the first service to end.
SharedResourceAlternates ==
  (SharedResourceScenario /\ TotalBegins = 2) =>
    /\ begun = <<1, 1>>
    /\ act_stats["A"].waiting_times =
         <<0, act_stats["A"].service_times[1]>>

\* the next step of the main loop hands an END_SERVICE event of a known
\* entity and activity to process_end_service_event
EndServiceDue ==
  /\ pc = "main"
  /\ calendar # <<>> /\ clock < duration
  /\ AdvanceAccepts(clock, calendar[1].time)
  /\ calendar[1].type = END_SERVICE
  /\ FindEntity(entities, calendar[1], 1) # 0
  /\ HasActivity(activities, calendar[1].activity_id)

\* C16: each processed END_SERVICE of an activity appends to the resource
\* queue one new resource per element of generated_resources, of that type,
\* with ready_time the clock, available and disposable, and does not fail.
GeneratedResources ==
  [][(EndServiceDue /\ event_log' # event_log) =>
       LET gen == activities[calendar[1].activity_id].generated_resources
           n   == Len(resources)
       IN /\ pc' # "error"
          /\ Len(resources') = n + Len(gen)
          /\ \A k \in DOMAIN gen :
               /\ resources'[n + k].type = gen[k]
               /\ resources'[n + k].ready_time = clock'
               /\ resources'[n + k].available
               /\ resources'[n + k].disposable]_vars

\* the non-disposable resources of a queue, in queue order: id, type and
\* availability of each
NonDisposable(q) ==
  LET idx == InOrder({i \in DOMAIN q : ~q[i].disposable})
  IN [k \in DOMAIN idx |->
        <<q[idx[k]].id, q[idx[k]].type, q[idx[k]].available>>]

ProcessedFlag ==
  \A k \in DOMAIN event_log :
    LET i == FindEntity(entities, event_log[k], 1)
    IN (/\ event_log[k].type = END_SERVICE
        /\ i # 0
        /\ HasActivity(activities, event_log[k].activity_id))
         => /\ entities[i].departure_time # 0
            /\ entities[i].arrival_time <= entities[i].departure_time
            /\ GetNextUnprocessed(entities) # i

\* entity j is unprocessed and every resource type its activity requires has
\* an available resource
Startable(j) ==
  /\ j \in DOMAIN entities
  /\ entities[j].departure_time = 0
  /\ HasActivity(activities, entities[j].activity_id)
  /\ LET req == activities[entities[j].activity_id].required_resources
     IN \A k \in DOMAIN req : GetResource(resources, req[k]) # 0

\* the last begin attempt of the drain loop failed for lack of a resource
FailedForLackOfResource ==
  /\ last_begin = "failed"
  /\ next_entity \in DOMAIN entities
  /\ HasActivity(activities, entities[next_entity].activity_id)
  /\ ~AcquireResources(resources,
         activities[entities[next_entity].activity_id].required_resources).ok

\* entity j has been deferred: the drain loop is at its test after a begin
\* attempt that failed for lack of a resource, j is pending with its
\* resources available, and the clock is below duration
Deferred(j) ==
  /\ pc = "drain"
  /\ FailedForLackOfResource
  /\ clock < duration
  /\ Startable(j)

ReturnCondition ==
  pc = "done" =>
    /\ (calendar = <<>> \/ clock >= duration)
    /\ total_time = clock

\* C20 witness: run has returned on the duration test with events left in
\* the calendar, after processing an event.
ReturnConditionWitness ==
  /\ pc = "done"
  /\ calendar # <<>>
  /\ event_log # <<>>
  /\ clock >= duration
  /\ total_time = clock

\* the second run has ended as the first did: same outcome, event log,
\* queues, calendar, clock and statistics
SameOutcome ==
  /\ pc = first.pc
  /\ event_log = first.event_log
  /\ entities = first.entities
  /\ resources = first.resources
  /\ calendar = first.calendar
  /\ clock = first.clock
  /\ act_stats = first.act_stats
  /\ res_stats = first.res_stats
  /\ total_time = first.total_time

ModelObjectsUntouched ==
  run_no = 1 => SameModelObject = IdenticalModel

\* the main loop is about to pop an event and call clock.advance(its time)
AdvanceDue == pc = "main" /\ calendar # <<>> /\ clock < duration

\* C23: advance(t) with t >= current time (t equal included) sets the clock
\* to t and the run goes on to log the event; with t < current time it
\* raises, the clock keeps its value and the event is not logged.
ClockAdvance ==
  [][AdvanceDue =>
       LET t == calendar[1].time
       IN IF t >= clock
          THEN clock' = t /\ event_log' = Append(event_log, calendar[1])
          ELSE clock' = clock /\ pc' = "error" /\ event_log' = event_log]_vars

\* C23 witness: advance was called with the current time (the clock was
\* already at the time of the second event) and accepted it.
ClockAdvanceWitness ==
  /\ Len(event_log) >= 2
  /\ event_log[1].time = event_log[2].time
  /\ event_log[1].time > 0
  /\ clock = event_log[2].time

\* the event names an activity the model does not have, or no flow entity
\* of the queue has its entity id and activity id
Undispatchable(ev) ==
  \/ ev.activity_id \notin DOMAIN activities
  \/ ~\E i \in DOMAIN entities :
        entities[i].id = ev.entity_id /\ entities[i].activity_id = ev.activity_id

\* C24: an event whose activity is unknown or that matches no flow entity is
\* popped, advances the clock and is logged, and its dispatch changes no
\* entity, no resource, no statistic, schedules nothing and raises nothing.
UnknownEventIsNoOp ==
  [][(AdvanceDue /\ calendar[1].time >= clock /\ Undispatchable(calendar[1])) =>
       /\ calendar' = Tail(calendar)
       /\ clock' = calendar[1].time
       /\ event_log' = Append(event_log, calendar[1])
       /\ entities' = entities
       /\ resources' = resources
       /\ act_stats' = act_stats
       /\ res_stats' = res_stats
       /\ nevents' = nevents
       /\ pc' = "drain"]_vars

\* C24 witness: an END_SERVICE naming an unknown activity, and matching a
\* flow entity of the queue by id and activity id, has just been processed.
UnknownEventWitness ==
  /\ pc = "drain"
  /\ last_begin = "none"
  /\ event_log # <<>>
  /\ LET ev == event_log[Len(event_log)]
     IN /\ ev.activity_id \notin DOMAIN activities
        /\ clock = ev.time
        /\ \E i \in DOMAIN entities :
             /\ entities[i].id = ev.entity_id
             /\ entities[i].activity_id = ev.activity_id

\* every successor id of every activity is an activity of the model
SuccessorsExist ==
  \A a \in DOMAIN activities :
    \A k \in DOMAIN activities[a].successor_activities :
      activities[a].successor_activities[k] \in DOMAIN activities

\* every initial flow entity is at an activity of the model
EntityActivitiesExist ==
  \A i \in DOMAIN entities : entities[i].activity_id \in DOMAIN activities

\* C25: validate() returns True iff every successor id and every initial
\* flow entity's activity_id is an activity of the model, and the call
\* changes nothing in the model.
ValidateResult ==
  /\ [](valid # "none" =>
          (valid = "True" <=> (SuccessorsExist /\ EntityActivitiesExist)))
  /\ [][valid' # valid =>
          /\ activities' = activities
          /\ entities' = entities
          /\ resources' = resources]_vars

\* C25 witness: validate() has returned False for a model whose successor
\* ids all exist but one of whose flow entities is at an unknown activity.
ValidateResultWitness ==
  /\ valid = "False"
  /\ SuccessorsExist
  /\ activities["A"].successor_activities # <<>>
  /\ ~EntityActivitiesExist

\* C26: when the model fails validation, run ends in an error before any
\* step has changed a queue, the calendar or the clock: it begins no
\* service, processes no event and does not return normally.
StructuralErrorsRejected ==
  (pc # "new" /\ run_no = 1 /\ ~ModelValidate(activities, entities)) =>
    /\ pc # "done"
    /\ TotalBegins = 0
    /\ event_log = <<>>
    /\ clock = 0
    /\ calendar = start.calendar
    /\ resources = start.resources

\* C27: no service of negative duration is ever recorded: every recorded
\* service time is >= 0 (no END_SERVICE before its begin_time), and no busy
\* interval ends before it starts; a negative sample aborts the run instead.
NegativeDurationsAbort ==
  /\ \A a \in DOMAIN act_stats :
       \A k \in DOMAIN act_stats[a].service_times :
         act_stats[a].service_times[k] >= 0
  /\ \A id \in DOMAIN res_stats :
       \A k \in DOMAIN res_stats[id] : res_stats[id][k][1] <= res_stats[id][k][2]
  /\ \A k \in DOMAIN calendar :
       calendar[k].seq >= start.nevents => calendar[k].time >= 0

\* a step in which process_begin_service_event returned True
SuccessfulBegin == pc \in {"begin", "main"} /\ nevents' = nevents + 1

\* C28: on a successful begin, begin_time (the scheduled END_SERVICE time less
\* the sampled duration) is the maximum of the entity's arrival_time and the
\* ready_time of every acquired resource, END_SERVICE is scheduled at
\* begin_time + duration for that entity and activity, every acquired resource
\* records the busy period (begin_time, end_time), the recorded waiting time is
\* begin_time - arrival_time >= 0 and the recorded service time is the
\* sampled duration; without required resources begin_time is arrival_time
\* and the waiting time is 0.
BeginTiming ==
  [][SuccessfulBegin =>
      LET j          == CHOOSE j \in DOMAIN begun : begun'[j] = begun[j] + 1
          entity     == entities[j]
          activity   == activities[entity.activity_id]
          end_event  == calendar'[CHOOSE k \in DOMAIN calendar' :
                                    calendar'[k].seq = nevents]
          d          == samples'[Len(samples')]
          begin_time == end_event.time - d
          ready      == {resources[acquired'[k]].ready_time :
                           k \in DOMAIN acquired'}
          stats      == act_stats'[entity.activity_id]
          waiting    == stats.waiting_times[Len(stats.waiting_times)]
      IN /\ Len(samples') = Len(samples) + 1
         /\ end_event.type = END_SERVICE
         /\ end_event.entity_id = entity.id
         /\ end_event.activity_id = entity.activity_id
         /\ Len(acquired') = Len(activity.required_resources)
         /\ begin_time \in {entity.arrival_time} \cup ready
         /\ \A t \in {entity.arrival_time} \cup ready : begin_time >= t
         /\ \A k \in DOMAIN acquired' :
              LET busy == res_stats'[resources[acquired'[k]].id]
              IN busy[Len(busy)] = <<begin_time, end_event.time>>
         /\ Len(stats.waiting_times) =
              Len(act_stats[entity.activity_id].waiting_times) + 1
         /\ waiting = begin_time - entity.arrival_time
         /\ waiting >= 0
         /\ stats.service_times[Len(stats.service_times)] = d
         /\ activity.required_resources = <<>> =>
              (begin_time = entity.arrival_time /\ waiting = 0)
  ]_vars

\* C28 witness: a begin that acquired resources has succeeded and the entity
\* had to wait for a resource to become ready
BeginTimingWitness ==
  /\ last_begin \in {"ok", "dispatch_ok"}
  /\ acquired # <<>>
  /\ \E a \in DOMAIN act_stats :
       /\ act_stats[a].waiting_times # <<>>
       /\ act_stats[a].waiting_times[Len(act_stats[a].waiting_times)] > 0

\* C29: a successful begin leaves every acquired resource that is neither of
\* a released type nor disposable with available = FALSE (so that no later
\* get_resource returns it).
HeldResourcesUnavailable ==
  [][SuccessfulBegin =>
      LET j        == CHOOSE j \in DOMAIN begun : begun'[j] = begun[j] + 1
          activity == activities[entities[j].activity_id]
      IN \A k \in DOMAIN acquired' :
           LET r == resources[acquired'[k]]
           IN (r.type \notin activity.released_resources /\ ~r.disposable) =>
                ~resources'[acquired'[k]].available
  ]_vars

\* every activity that requires the type releases it
AlwaysReleased(type) ==
  \A a \in DOMAIN activities :
    (\E k \in DOMAIN activities[a].required_resources :
        activities[a].required_resources[k] = type)
      => type \in activities[a].released_resources

\* C30: a resource that has served, and whose type each acquiring activity
\* releases, still exists with available = TRUE and ready_time equal to the
\* end_time of its last service, and each later service of it began no
\* earlier than the end_time of the one before.
ReleasedResourcesReady ==
  pc # "new" =>
    \A i \in DOMAIN resources :
      LET r == resources[i] IN
      (r.id \in DOMAIN res_stats /\ AlwaysReleased(r.type)) =>
        LET busy == res_stats[r.id] IN
        busy # <<>> =>
          /\ r.available
          /\ r.ready_time = busy[Len(busy)][2]
          /\ \A k \in 1..(Len(busy) - 1) : busy[k + 1][1] >= busy[k][2]

\* C30 witness: a released resource has served twice, the second service
\* beginning when the first one ended
ReleasedResourcesWitness ==
  /\ pc # "new"
  /\ \E i \in DOMAIN resources :
       LET r == resources[i] IN
       /\ r.id \in DOMAIN res_stats
       /\ AlwaysReleased(r.type)
       /\ Len(res_stats[r.id]) = 2
       /\ res_stats[r.id][1][2] > 0
       /\ res_stats[r.id][2][1] = res_stats[r.id][1][2]
       /\ r.ready_time = res_stats[r.id][2][2]

\* C31: a processed END_SERVICE of an entity at activity A at time t sets the
\* departure_time of that entity, and of no other, to t, adds 1 to A's
\* completion_count and to no other, and appends one unprocessed flow entity
\* (arrival_time t, departure_time 0) per element of A.successor_activities,
\* in list order, without an error.
EndServiceEffects ==
  [][(EndServiceDue /\ event_log' # event_log) =>
       LET ev   == calendar[1]
           i    == FindEntity(entities, ev, 1)
           succ == activities[ev.activity_id].successor_activities
           n    == Len(entities)
       IN /\ pc' # "error"
          /\ Len(entities') = n + Len(succ)
          /\ \A k \in 1..n :
               entities'[k] = IF k = i
                              THEN [entities[k] EXCEPT !.departure_time = clock']
                              ELSE entities[k]
          /\ \A k \in DOMAIN succ :
               /\ entities'[n + k].activity_id = succ[k]
               /\ entities'[n + k].arrival_time = clock'
               /\ entities'[n + k].departure_time = 0
          /\ \A a \in DOMAIN act_stats :
               act_stats'[a].completion_count =
                 act_stats[a].completion_count
                   + (IF a = ev.activity_id THEN 1 ELSE 0)]_vars

\* C32: the ids of the entities of the flow queue are pairwise distinct.
FlowEntityIdsUnique ==
  \A i, j \in DOMAIN entities : i # j => entities[i].id # entities[j].id

\* C33: the ids of the resources of the resource queue are pairwise
\* distinct: a resource generated at END_SERVICE gets an id that no initial
\* and no earlier generated resource has.
ResourceIdsUnique ==
  \A i, j \in DOMAIN resources : i # j => resources[i].id # resources[j].id

\* C34: every resource of the resource queue of a running engine, generated
\* ones included, has a statistics row, and no begin fails with an error.
ResourceStatisticsRows ==
  pc # "new" =>
    /\ \A i \in DOMAIN resources : resources[i].id \in DOMAIN res_stats
    /\ ~(pc = "error" /\ last_begin \in {"failed", "dispatch_failed"})

WithoutIndex(cal, k) ==
  [p \in 1..(Len(cal) - 1) |-> IF p < k THEN cal[p] ELSE cal[p + 1]]

\* events in non-decreasing time order, equal-time events in the order of
\* their insertion (each Event object is scheduled when constructed)
CalendarInOrder ==
  \A i, j \in DOMAIN calendar :
    i < j => \/ calendar[i].time < calendar[j].time
             \/ /\ calendar[i].time = calendar[j].time
                /\ calendar[i].seq < calendar[j].seq

\* C36: after any sequence of schedule_event and remove_event calls the
\* calendar is in non-decreasing time order with equal-time events in
\* insertion order; get_next_event returns the first event (None when
\* empty) and removes nothing; remove_event of an event of the calendar
\* removes exactly that event and returns True, and of any other event
\* returns False and leaves the calendar as it was.
CalendarContract ==
  /\ [](CalendarInOrder)
  /\ [][(ret' # ret /\ ret'.call = "get_next_event") =>
          /\ calendar' = calendar
          /\ ret'.value = IF calendar = <<>> THEN <<>> ELSE <<calendar[1]>>]_vars
  /\ [][(ret' # ret /\ ret'.call = "remove_event") =>
          IF \E k \in DOMAIN calendar : calendar[k] = ret'.event
          THEN /\ ret'.value = "True"
               /\ \E k \in DOMAIN calendar :
                    /\ calendar[k] = ret'.event
                    /\ calendar' = WithoutIndex(calendar, k)
          ELSE /\ ret'.value = "False"
               /\ calendar' = calendar]_vars

\* C36 witness: remove_event has returned False for an event that was
\* removed before, leaving two equal-time events in the calendar
CalendarContractWitness ==
  /\ ret.call = "remove_event"
  /\ ret.value = "False"
  /\ ret.event.seq < nevents
  /\ Len(calendar) >= 2
  /\ calendar[1].time = calendar[2].time

\* C37: arrival times, ready times and sampled durations being
\* non-negative, the END_SERVICE a begin schedules is never earlier than the
\* clock at that moment, and clock.advance never raises (no event at the
\* head of the calendar is earlier than the clock when the main loop takes
\* it).
EventsNotInThePast ==
  [][/\ SuccessfulBegin =>
          LET end_event == calendar'[CHOOSE k \in DOMAIN calendar' :
                                       calendar'[k].seq = nevents]
          IN end_event.time >= clock'
     /\ AdvanceDue => AdvanceAccepts(clock, calendar[1].time)]_vars

\* C38: an event is taken from the calendar only while the clock is below
\* duration: every logged event but the last has a time < duration, and a
\* clock above duration is the time of the last logged event.
PoppedBelowDuration ==
  pc # "new" =>
    /\ \A k \in 1..(Len(event_log) - 1) : event_log[k].time < duration
    /\ clock > duration =>
         (event_log # <<>> /\ clock = event_log[Len(event_log)].time)

\* C38 witness: run has returned with two events processed, the last one
\* beyond duration
PoppedBelowDurationWitness ==
  /\ pc = "done"
  /\ Len(event_log) >= 2
  /\ clock > duration
  /\ calendar # <<>>

\* how many events of the sequence are the Event object number s
Occurrences(events, s) ==
  Cardinality({k \in DOMAIN events : events[k].seq = s})

\* C39: each END_SERVICE the engine has scheduled (one per successful
\* begin) is in the calendar or in the event log, in exactly one of them and
\* once; the event log only grows by appending.
EventConservation ==
  /\ [](pc # "new" =>
          /\ nevents - start.nevents = TotalBegins
          /\ \A s \in start.nevents..(nevents - 1) :
               Occurrences(calendar, s) + Occurrences(event_log, s) = 1)
  /\ [][run_no' = run_no =>
          /\ Len(event_log') >= Len(event_log)
          /\ \A k \in DOMAIN event_log : event_log'[k] = event_log[k]]_vars

\* C40 as stated: for every activity waiting_times and service_times have
\* the same length and completion_count is at most that length.
StatisticsConsistency ==
  pc # "new" =>
    \A a \in DOMAIN act_stats :
      /\ Len(act_stats[a].waiting_times) = Len(act_stats[a].service_times)
      /\ act_stats[a].completion_count <= Len(act_stats[a].service_times)

\* successful begins of the entities of activity a
BeginsOf(a) ==
  SumSeq([i \in DOMAIN begun |->
            IF entities[i].activity_id = a THEN begun[i] ELSE 0])

\* END_SERVICE events of activity a that the caller had scheduled when run
\* was called
CallerEndsOf(a) ==
  Cardinality({k \in DOMAIN start.calendar :
                 /\ start.calendar[k].type = END_SERVICE
                 /\ start.calendar[k].activity_id = a})

\* C40 amended: for every activity waiting_times and service_times have the
\* same length, one sample per successful begin, and completion_count is at
\* most that length plus the number of END_SERVICE events of the activity
\* that the caller scheduled itself.
StatisticsConsistencyAmended ==
  pc # "new" =>
    \A a \in DOMAIN act_stats :
      /\ Len(act_stats[a].waiting_times) = Len(act_stats[a].service_times)
      /\ Len(act_stats[a].service_times) = BeginsOf(a)
      /\ act_stats[a].completion_count
           <= Len(act_stats[a].service_times) + CallerEndsOf(a)

\* C40 witness: an activity has a recorded service and more completions
\* than services
StatisticsConsistencyWitness ==
  /\ pc # "new"
  /\ \E a \in DOMAIN act_stats :
       /\ Len(act_stats[a].service_times) >= 1
       /\ act_stats[a].completion_count > Len(act_stats[a].service_times)

====
